---- MODULE Spec2Model ----
(***************************************************************************)
(* A model of the blockchain-sample programs:                              *)
(*   v2.rs  signed transactions kept in a ledger,                          *)
(*   v3.rs  a timestamp server that signs and chains blocks,               *)
(*   v4.rs  blocks attested by proof-of-work.                              *)
(*                                                                         *)
(* Cryptography is modelled symbolically.  SHA-512 is a collision-free     *)
(* constructor over the string it digests; where v4 reads the bytes of a   *)
(* digest, the bytes are those of an unknown function, fixed the first     *)
(* time a string is digested (variable sha_bytes).  An Ed25519 signature   *)
(* is the pair of the signing key and the signed message, and verifies     *)
(* under the matching public key only.  serde_json is modelled by what it  *)
(* writes: a struct is the tuple of its fields under the struct's name, a  *)
(* finite f32 is its shortest decimal text and a non-finite f32 is null.   *)
(***************************************************************************)
EXTENDS Integers, Sequences, FiniteSets, TLC

\* ------------------------------------------------------------------ bounds
\* longest ledger of v2
MaxLedger == 1
\* most transactions pushed to the transactions vectors of v3 and v4
MaxTx == 1
\* most blocks appended after the genesis block
MaxBlocks == 2
\* width in bits of the nonce counter explored (u32 in v4.rs, 32 bits there)
NonceBits == 1
\* largest difficulty explored (v4.rs is built with DIFFICULTY)
MaxDifficulty == 1
\* most nonces tried in one run of v4, over all calls of mine
MaxHashes == 3

\* ---------------------------------------------------------- program values
DIFFICULTY == 1

\* the owners of the key pairs the programs generate
Wallets == {"alice", "bob"}
Authority == "timestamp_server"

\* f32 values the programs are run with: main's 5.0 and 7.0 and the
\* two infinities
F32Sample == {"5.0", "7.0", "inf", "-inf"}

\* the values the wallets of v3 and v4 send; any of F32Sample may be written
\* over them later
SentSample == {"5.0", "inf"}

\* readings of the wall clock
Times == {1}

\* bytes a digest may start with
ByteSample == {0, 255}

EmptyBytes == << >>

\* ------------------------------------------------------------ ring, serde
\* Ed25519KeyPair::generate_pkcs8 / from_pkcs8 / public_key
generate_pkcs8(owner) == <<"pkcs8", owner>>

public_key_of(pkcs8) == <<"ed25519", pkcs8[2]>>

\* key_pair.sign(message)
ed25519_sign(pkcs8, message) == <<"signature", pkcs8[2], message>>

\* UnparsedPublicKey::new(&ED25519, key).verify(message, sign)
ed25519_verify(key, message, sign) ==
    /\ Len(sign) = 3
    /\ Len(key) = 2
    /\ sign[1] = "signature"
    /\ sign[2] = key[2]
    /\ sign[3] = message

\* digest::digest(&digest::SHA512, s)
sha512(s) == <<"sha512", s>>

\* serde_json's f32: finite numbers in decimal, NaN and the infinities null
is_finite(value) == value \notin {"inf", "-inf", "NaN"}

serialize_f32(value) == IF is_finite(value) THEN value ELSE "null"

\* serde_json::to_string(&Transaction)
transaction_to_string(t) ==
    <<"Transaction", t.sender_address, t.receiver_address,
      serialize_f32(t.value), t.sign>>

\* ------------------------------------------------------------ transactions
Wallet_new(owner) ==
    [private_key |-> generate_pkcs8(owner),
     address     |-> public_key_of(generate_pkcs8(owner))]

\* Transact::str_data: the transaction with its sign cleared, as JSON
str_data(t) ==
    transaction_to_string([sender_address   |-> t.sender_address,
                           receiver_address |-> t.receiver_address,
                           value            |-> t.value,
                           sign             |-> EmptyBytes])

sign_transaction(wallet, t) ==
    LET h == sha512(str_data(t))
    IN  [sender_address   |-> t.sender_address,
         receiver_address |-> t.receiver_address,
         value            |-> t.value,
         sign             |-> ed25519_sign(wallet.private_key, h)]

\* send with the call of sign_transaction left out
send_unsigned(wallet, receiver_address, value) ==
    [sender_address   |-> wallet.address,
     receiver_address |-> receiver_address,
     value            |-> value,
     sign             |-> EmptyBytes]

send(wallet, receiver_address, value) ==
    LET t == [sender_address   |-> wallet.address,
              receiver_address |-> receiver_address,
              value            |-> value,
              sign             |-> EmptyBytes]
    IN  sign_transaction(wallet, t)

verify_transaction(t) ==
    IF t.sign = EmptyBytes
    THEN "Err: transaction's sign is empty."
    ELSE LET h == sha512(str_data(t))
         IN  IF ed25519_verify(t.sender_address, h, t.sign)
             THEN "Ok"
             ELSE "Err: invalid sign."

Addresses == {Wallet_new(w).address : w \in Wallets}

\* ------------------------------------------------------------------- state
VARIABLES
    version,        \* which program runs: "v2", "v3" or "v4"
    ledger,         \* v2: main's Ledger, a Vec<Transaction>
    sent,           \* v2: the arguments of the send call behind each item
    transactions,   \* v3, v4: main's Vec<Transaction>
    block_chain,    \* v3: TimestampServer.block_chain; v4: main's BlockChain
    public_key,     \* v3: TimestampServer.public_key
    signer,         \* v3: TimestampServer.signer
    tamper,         \* v3, v4: the out-of-band edit main made, if any
    difficulty,     \* v4: the DIFFICULTY the program is built with
    pc,             \* v4: where main and mine stand
    t_block,        \* v4: the template handed to mine
    b,              \* v4: mine's candidate block
    nonce,          \* v4: mine's nonce counter
    block,          \* v4: the block mine returned
    verify_result,  \* v4: main's verify_result
    sha_bytes,      \* v4: the leading bytes of the digests computed so far
    hashes          \* v4: how many nonces were tried so far

vars == <<version, ledger, sent, transactions, block_chain, public_key, signer,
          tamper, difficulty, pc, t_block, b, nonce, block, verify_result,
          sha_bytes, hashes>>

v2vars == <<ledger, sent>>
v3vars == <<public_key, signer>>
v4vars == <<difficulty, pc, t_block, b, nonce, block, verify_result,
            sha_bytes, hashes>>
chainvars == <<transactions, block_chain, tamper>>

NoBlock == [time |-> 0, transactions |-> << >>, previous_hash |-> EmptyBytes,
            nonce |-> 0]
NoTamper == [kind |-> "none", index |-> 0, item |-> 0]

\* ---------------------------------------------------------------- v2: main
\* ledger.push(wallet.send(&receiver, value))
V2Send ==
    /\ version = "v2"
    /\ Len(ledger) < MaxLedger
    /\ \E w \in Wallets, r \in Addresses, v \in F32Sample :
          /\ ledger' = Append(ledger, send(Wallet_new(w), r, v))
          /\ sent' = Append(sent, [wallet |-> w, receiver_address |-> r,
                                   value |-> v])
    /\ UNCHANGED <<version, chainvars, v3vars, v4vars>>

\* item.value = v, for an item of the ledger
V2SetValue ==
    /\ version = "v2"
    /\ \E i \in 1..Len(ledger), v \in F32Sample :
          ledger' = [ledger EXCEPT ![i].value = v]
    /\ UNCHANGED <<version, sent, chainvars, v3vars, v4vars>>

\* ------------------------------------------------- v3: timestamp server
\* serde_json::to_string(&Block) of v3
block_to_string_v3(blk) ==
    <<"Block", blk.time,
      [k \in 1..Len(blk.transactions) |->
          transaction_to_string(blk.transactions[k])],
      blk.previous_hash, blk.sign>>

\* HashBlock::hash of v3: the digest of the block with its sign cleared
hash_v3(blk) ==
    LET cleared == [time          |-> blk.time,
                    transactions  |-> blk.transactions,
                    previous_hash |-> blk.previous_hash,
                    sign          |-> EmptyBytes]
    IN  sha512(block_to_string_v3(cleared))

TimestampServer_new(now) ==
    LET pkcs8_bytes == generate_pkcs8(Authority)
        genesis == [time          |-> now,
                    transactions  |-> << >>,
                    previous_hash |-> EmptyBytes,
                    sign          |-> EmptyBytes]
    IN  [public_key  |-> public_key_of(pkcs8_bytes),
         block_chain |-> <<genesis>>,
         signer      |-> pkcs8_bytes]

Last(chain) == chain[Len(chain)]

\* generate_block publishing the block before its sign is set
generate_block_unsigned(self, txs, now) ==
    LET unsigned == [time          |-> now,
                     transactions  |-> txs,
                     previous_hash |-> hash_v3(Last(self.block_chain)),
                     sign          |-> EmptyBytes]
    IN  [self EXCEPT !.block_chain = Append(self.block_chain, unsigned)]

\* generate_block linking to the first block, not the last
generate_block_links_first(self, txs, now) ==
    LET unsigned == [time          |-> now,
                     transactions  |-> txs,
                     previous_hash |-> hash_v3(self.block_chain[1]),
                     sign          |-> EmptyBytes]
        h == sha512(block_to_string_v3(unsigned))
        signed == [unsigned EXCEPT !.sign = ed25519_sign(self.signer, h)]
    IN  [self EXCEPT !.block_chain = Append(self.block_chain, signed)]

generate_block(self, txs, now) ==
    LET tlist == txs
        unsigned == [time          |-> now,
                     transactions  |-> tlist,
                     previous_hash |-> hash_v3(Last(self.block_chain)),
                     sign          |-> EmptyBytes]
        h == sha512(block_to_string_v3(unsigned))
        sign == ed25519_sign(self.signer, h)
        signed == [unsigned EXCEPT !.sign = sign]
    IN  [self EXCEPT !.block_chain = Append(self.block_chain, signed)]

all_transactions_ok(blk) ==
    \A k \in 1..Len(blk.transactions) :
        verify_transaction(blk.transactions[k]) = "Ok"

verify_block_v3(previous_block, blk, timestamp_server_publickey) ==
    LET is_correct_hash == hash_v3(previous_block) = blk.previous_hash
        is_correct_transactions == all_transactions_ok(blk)
        h == hash_v3(blk)
    IN  IF ed25519_verify(timestamp_server_publickey, h, blk.sign)
        THEN is_correct_hash /\ is_correct_transactions
        ELSE FALSE

\* the loop of verify_blockchain from its i-th round on (chain is 1-based
\* here: chain[index-2] and chain[index-1] of the source are chain[index-1]
\* and chain[index])
RECURSIVE verify_blockchain_from(_, _, _)
verify_blockchain_from(chain, timestamp_server_publickey, i) ==
    IF i >= Len(chain) - 1
    THEN TRUE
    ELSE LET index == Len(chain) - i
         IN  IF ~verify_block_v3(chain[index - 1], chain[index],
                                 timestamp_server_publickey)
             THEN FALSE
             ELSE verify_blockchain_from(chain, timestamp_server_publickey,
                                         i + 1)

\* (chain.len()-1 underflows on an empty chain; the server's chain always
\* holds the genesis block)
verify_blockchain(chain, timestamp_server_publickey) ==
    verify_blockchain_from(chain, timestamp_server_publickey, 0)

\* main's wallets send to each other
OtherAddresses(w) == Addresses \ {Wallet_new(w).address}

\* transactions.push(wallet.send(&other.address, value))
V3PushSend ==
    /\ version = "v3"
    /\ tamper.kind = "none"
    /\ Len(transactions) < MaxTx
    /\ \E w \in Wallets : \E r \in OtherAddresses(w), v \in SentSample :
          transactions' = Append(transactions, send(Wallet_new(w), r, v))
    /\ UNCHANGED <<version, v2vars, block_chain, tamper, v3vars, v4vars>>

\* timestamp_server.generate_block(&transactions)
V3GenerateBlock ==
    /\ version = "v3"
    /\ tamper.kind = "none"
    /\ Len(block_chain) < MaxBlocks + 1
    /\ \E now \in Times :
          LET self == [public_key  |-> public_key,
                       block_chain |-> block_chain,
                       signer      |-> signer]
              after == generate_block(self, transactions, now)
          IN  /\ block_chain' = after.block_chain
              /\ public_key' = after.public_key
              /\ signer' = after.signer
    /\ UNCHANGED <<version, v2vars, transactions, tamper, v4vars>>

\* block_chain[i].transactions[j].value = v, as main does to block 3
V3SetValue ==
    /\ version = "v3"
    /\ tamper.kind = "none"
    /\ \E i \in 2..Len(block_chain) :
       \E j \in 1..Len(block_chain[i].transactions) :
       \E v \in F32Sample \ {block_chain[i].transactions[j].value} :
          /\ block_chain' =
                [block_chain EXCEPT ![i].transactions[j].value = v]
          /\ tamper' = [kind |-> "value", index |-> i, item |-> j]
    /\ UNCHANGED <<version, v2vars, transactions, v3vars, v4vars>>

\* hashes an edited previous_hash may hold: none, or the hash of a block of
\* the chain
SomeHashes_v3 ==
    {EmptyBytes} \cup {hash_v3(block_chain[k]) : k \in 1..Len(block_chain)}

\* block_chain[i].previous_hash = h
V3SetPreviousHash ==
    /\ version = "v3"
    /\ tamper.kind = "none"
    /\ \E i \in 2..Len(block_chain) :
       \E h \in SomeHashes_v3 \ {block_chain[i].previous_hash} :
          /\ block_chain' = [block_chain EXCEPT ![i].previous_hash = h]
          /\ tamper' = [kind |-> "previous_hash", index |-> i, item |-> 0]
    /\ UNCHANGED <<version, v2vars, transactions, v3vars, v4vars>>

\* signatures an edited sign may hold: none, the sign of a block of the
\* chain, or a wallet's signature over the block
SomeSigns(blk) ==
    {EmptyBytes} \cup
    {block_chain[k].sign : k \in 1..Len(block_chain)} \cup
    {ed25519_sign(Wallet_new(w).private_key, hash_v3(blk)) : w \in Wallets}

\* block_chain[i].sign = s
V3SetSign ==
    /\ version = "v3"
    /\ tamper.kind = "none"
    /\ \E i \in 2..Len(block_chain) :
       \E s \in SomeSigns(block_chain[i]) \ {block_chain[i].sign} :
          /\ block_chain' = [block_chain EXCEPT ![i].sign = s]
          /\ tamper' = [kind |-> "attestation", index |-> i, item |-> 0]
    /\ UNCHANGED <<version, v2vars, transactions, v3vars, v4vars>>

\* ------------------------------------------------------ v4: proof of work
\* serde_json::to_string(&Block) of v4
block_to_string_v4(blk) ==
    <<"Block", blk.time,
      [k \in 1..Len(blk.transactions) |->
          transaction_to_string(blk.transactions[k])],
      blk.previous_hash, blk.nonce>>

\* hash of v4 clearing the nonce, as v3 clears the sign
hash_v4_without_nonce(blk) ==
    LET copy == [time          |-> blk.time,
                 transactions  |-> blk.transactions,
                 previous_hash |-> blk.previous_hash,
                 nonce         |-> 0]
    IN  sha512(block_to_string_v4(copy))

\* HashBlock::hash of v4: the digest of the block, nonce included
hash_v4(blk) ==
    LET copy == [time          |-> blk.time,
                 transactions  |-> blk.transactions,
                 previous_hash |-> blk.previous_hash,
                 nonce         |-> blk.nonce]
    IN  sha512(block_to_string_v4(copy))

\* the nonce counter is an unsigned integer of NonceBits bits
RECURSIVE Pow2(_)
Pow2(n) == IF n = 0 THEN 1 ELSE 2 * Pow2(n - 1)

NonceMax == Pow2(NonceBits) - 1

\* the digests a program may be about to compute: the bytes of a digest not
\* computed before are any bytes, those of one computed before are the same
Digested(h, bytes) ==
    IF h \in DOMAIN sha_bytes THEN sha_bytes ELSE (h :> bytes) @@ sha_bytes

LeadingBytes == [1..difficulty -> ByteSample]

\* valid_proof with its loop starting one byte late
valid_proof_skips_first_byte(blk) ==
    LET h == sha_bytes[hash_v4(blk)]
    IN  IF \E i \in 2..difficulty : h[i] # 0
        THEN "Err: invalid nonce."
        ELSE "Ok"

valid_proof(blk) ==
    LET h == sha_bytes[hash_v4(blk)]
    IN  IF \E i \in 1..difficulty : h[i] # 0
        THEN "Err: invalid nonce."
        ELSE "Ok"

\* verify_block of v4 without the link check
verify_block_v4_no_link(previous_block, blk) ==
    all_transactions_ok(blk) /\ valid_proof(blk) = "Ok"

\* verify_block of v4 without the transaction check
verify_block_v4_no_transactions(previous_block, blk) ==
    /\ hash_v4(previous_block) = blk.previous_hash
    /\ valid_proof(blk) = "Ok"

verify_block_v4(previous_block, blk) ==
    LET is_correct_hash == hash_v4(previous_block) = blk.previous_hash
        is_correct_transactions == all_transactions_ok(blk)
        is_correct_proof == valid_proof(blk) = "Ok"
    IN  is_correct_hash /\ is_correct_transactions /\ is_correct_proof

RECURSIVE CountTx(_)
CountTx(chain) ==
    IF chain = << >> THEN 0
    ELSE Len(chain[1].transactions) + CountTx(Tail(chain))

\* transactions.push(wallet.send(&other.address, value))
V4PushSend ==
    /\ version = "v4"
    /\ tamper.kind = "none"
    /\ pc = "main"
    /\ Len(transactions) + CountTx(block_chain) < MaxTx
    /\ \E w \in Wallets : \E r \in OtherAddresses(w), v \in SentSample :
          transactions' = Append(transactions, send(Wallet_new(w), r, v))
    /\ UNCHANGED <<version, v2vars, block_chain, tamper, v3vars, v4vars>>

\* nonces a template may carry (main's template carries 0)
TemplateNonces == {0, 1}

\* main: the template t_block on top of the last block; the transactions
\* vector is moved into it
V4Template ==
    /\ version = "v4"
    /\ tamper.kind = "none"
    /\ pc = "main"
    /\ Len(block_chain) < MaxBlocks + 1
    /\ \E now \in Times, n \in TemplateNonces :
          t_block' = [time          |-> now,
                      transactions  |-> transactions,
                      previous_hash |-> hash_v4(Last(block_chain)),
                      nonce         |-> n]
    /\ transactions' = << >>
    /\ pc' = "call_mine"
    /\ UNCHANGED <<version, v2vars, block_chain, tamper, v3vars, difficulty,
                   b, nonce, block, verify_result, sha_bytes, hashes>>

\* mine starting from the template's nonce
mine_enter_keeps_nonce(template) ==
    [time          |-> template.time,
     transactions  |-> template.transactions,
     previous_hash |-> template.previous_hash,
     nonce         |-> template.nonce]

\* mine, up to its loop: the first candidate carries nonce 0
mine_enter(template) ==
    [time          |-> template.time,
     transactions  |-> template.transactions,
     previous_hash |-> template.previous_hash,
     nonce         |-> 0]

V4MineEnter ==
    /\ version = "v4"
    /\ pc = "call_mine"
    /\ hashes < MaxHashes
    /\ nonce' = 0
    /\ b' = mine_enter(t_block)
    /\ \E bytes \in LeadingBytes :
          sha_bytes' = Digested(hash_v4(b'), bytes)
    /\ hashes' = hashes + 1
    /\ pc' = "mine_loop"
    /\ UNCHANGED <<version, v2vars, chainvars, v3vars, difficulty, t_block,
                   block, verify_result>>

\* one round of mine's loop: the candidate is no proof, the next nonce is
\* tried.  Past the last nonce the addition overflows: a build with overflow
\* checks panics, one without wraps to 0.
mine_next(candidate, n) == [candidate EXCEPT !.nonce = n]

V4MineStep ==
    /\ version = "v4"
    /\ pc = "mine_loop"
    /\ valid_proof(b) # "Ok"
    /\ hashes < MaxHashes
    /\ \/ /\ nonce < NonceMax
          /\ nonce' = nonce + 1
          /\ b' = mine_next(b, nonce')
          /\ \E bytes \in LeadingBytes :
                sha_bytes' = Digested(hash_v4(b'), bytes)
          /\ hashes' = hashes + 1
          /\ pc' = "mine_loop"
       \/ /\ nonce = NonceMax
          /\ nonce' = 0
          /\ b' = mine_next(b, nonce')
          /\ \E bytes \in LeadingBytes :
                sha_bytes' = Digested(hash_v4(b'), bytes)
          /\ hashes' = hashes + 1
          /\ pc' = "mine_loop"
       \/ /\ nonce = NonceMax
          /\ pc' = "panic"
          /\ UNCHANGED <<nonce, b, sha_bytes, hashes>>
    /\ UNCHANGED <<version, v2vars, chainvars, v3vars, difficulty, t_block,
                   block, verify_result>>

\* mine returns its candidate once it is a proof; its locals are dropped
V4MineReturn ==
    /\ version = "v4"
    /\ pc = "mine_loop"
    /\ valid_proof(b) = "Ok"
    /\ block' = b
    /\ b' = NoBlock
    /\ nonce' = 0
    /\ pc' = "mined"
    /\ UNCHANGED <<version, v2vars, chainvars, v3vars, difficulty, t_block,
                   verify_result, sha_bytes, hashes>>

\* main: verify_block(block_chain.last(), &block), block_chain.push(block);
\* the template is dropped and the block moved into the chain
V4VerifyPush ==
    /\ version = "v4"
    /\ pc = "mined"
    /\ verify_result' = verify_block_v4(Last(block_chain), block)
    /\ block_chain' = Append(block_chain, block)
    /\ block' = NoBlock
    /\ t_block' = NoBlock
    /\ pc' = "main"
    /\ UNCHANGED <<version, v2vars, transactions, tamper, v3vars, difficulty,
                   b, nonce, sha_bytes, hashes>>

\* an edit of a block of the chain; the digest of the edited block is one
\* the program computes when it verifies the chain
V4Edit(i, edited, kind, j) ==
    /\ block_chain' = [block_chain EXCEPT ![i] = edited]
    /\ tamper' = [kind |-> kind, index |-> i, item |-> j]
    /\ \E bytes \in LeadingBytes :
          sha_bytes' = Digested(hash_v4(edited), bytes)
    /\ UNCHANGED <<version, v2vars, transactions, v3vars, difficulty, pc,
                   t_block, b, nonce, block, verify_result, hashes>>

\* block_chain[i].transactions[j].value = v
V4SetValue ==
    /\ version = "v4"
    /\ tamper.kind = "none"
    /\ pc = "main"
    /\ \E i \in 2..Len(block_chain) :
       \E j \in 1..Len(block_chain[i].transactions) :
       \E v \in F32Sample \ {block_chain[i].transactions[j].value} :
          V4Edit(i, [block_chain[i] EXCEPT !.transactions[j].value = v],
                 "value", j)

SomeHashes_v4 ==
    {EmptyBytes} \cup {hash_v4(block_chain[k]) : k \in 1..Len(block_chain)}

\* block_chain[i].previous_hash = h
V4SetPreviousHash ==
    /\ version = "v4"
    /\ tamper.kind = "none"
    /\ pc = "main"
    /\ \E i \in 2..Len(block_chain) :
       \E h \in SomeHashes_v4 \ {block_chain[i].previous_hash} :
          V4Edit(i, [block_chain[i] EXCEPT !.previous_hash = h],
                 "previous_hash", 0)

\* block_chain[i].nonce = n
V4SetNonce ==
    /\ version = "v4"
    /\ tamper.kind = "none"
    /\ pc = "main"
    /\ \E i \in 2..Len(block_chain) :
       \E n \in (0..NonceMax) \ {block_chain[i].nonce} :
          V4Edit(i, [block_chain[i] EXCEPT !.nonce = n], "attestation", 0)

\* ----------------------------------------------------------- specification
Versions == {"v2", "v3", "v4"}

Init ==
    /\ version \in Versions
    /\ ledger = << >>
    /\ sent = << >>
    /\ transactions = << >>
    /\ tamper = NoTamper
    /\ pc = "main"
    /\ t_block = NoBlock
    /\ b = NoBlock
    /\ block = NoBlock
    /\ nonce = 0
    /\ verify_result = FALSE
    /\ sha_bytes = << >>
    /\ hashes = 0
    /\ \E now \in Times :
          /\ block_chain =
                CASE version = "v2" -> << >>
                  [] version = "v3" -> TimestampServer_new(now).block_chain
                  [] version = "v4" -> <<[time          |-> now,
                                          transactions  |-> << >>,
                                          previous_hash |-> EmptyBytes,
                                          nonce         |-> 0]>>
          /\ public_key = IF version = "v3"
                          THEN TimestampServer_new(now).public_key
                          ELSE EmptyBytes
          /\ signer = IF version = "v3"
                      THEN TimestampServer_new(now).signer
                      ELSE EmptyBytes
    /\ difficulty \in IF version = "v4" THEN 0..MaxDifficulty ELSE {0}

Next ==
    \/ V2Send
    \/ V2SetValue
    \/ V3PushSend
    \/ V3GenerateBlock
    \/ V3SetValue
    \/ V3SetPreviousHash
    \/ V3SetSign
    \/ V4PushSend
    \/ V4Template
    \/ V4MineEnter
    \/ V4MineStep
    \/ V4MineReturn
    \/ V4VerifyPush
    \/ V4SetValue
    \/ V4SetPreviousHash
    \/ V4SetNonce

Spec == Init /\ [][Next]_vars

\* ------------------------------------------------------------------ claims
\* what send can return
SendResults ==
    {send(Wallet_new(w), r, v) : w \in Wallets, r \in Addresses,
                                 v \in F32Sample}

\* v4 has no verify_blockchain: a chain verifies when verify_block accepts
\* every adjacent pair
AllPairsVerify_v4 ==
    \A i \in 2..Len(block_chain) :
        verify_block_v4(block_chain[i - 1], block_chain[i])

\* C1: in authority mode, after TimestampServer::new() and any number of
\* generate_block calls on lists of sent transactions, with no out-of-band
\* edit, verify_blockchain is true; the fresh ledger is one genesis block
\* with no transactions and no previous_hash, and verifies.
C1_HonestChainVerifies ==
    /\ \A now \in Times :
          LET fresh == TimestampServer_new(now)
          IN  /\ Len(fresh.block_chain) = 1
              /\ fresh.block_chain[1].transactions = << >>
              /\ fresh.block_chain[1].previous_hash = EmptyBytes
              /\ verify_blockchain(fresh.block_chain, fresh.public_key)
    /\ (version = "v3" /\ tamper.kind = "none")
          => verify_blockchain(block_chain, public_key)

C1_Witness ==
    /\ version = "v3"
    /\ tamper.kind = "none"
    /\ Len(block_chain) = MaxBlocks + 1
    /\ block_chain[2].transactions = << >>
    /\ Len(block_chain[3].transactions) = 1
    /\ verify_blockchain(block_chain, public_key)

\* C2 as claimed: in v3, writing a different value over the value of a
\* transaction of an appended block makes verify_blockchain false.
C2_ValueEditDetected ==
    (version = "v3" /\ tamper.kind = "value")
        => ~verify_blockchain(block_chain, public_key)

\* C3: after honest appends, a previous_hash of block i >= 1 replaced by a
\* value other than the hash of block i-1 makes verify_block fail on that
\* pair and the verification of the chain fail.
C3_PreviousHashEditDetected ==
    tamper.kind = "previous_hash" =>
        LET i == tamper.index
        IN  /\ version = "v3" =>
                  /\ ~verify_block_v3(block_chain[i - 1], block_chain[i],
                                      public_key)
                  /\ ~verify_blockchain(block_chain, public_key)
            /\ version = "v4" =>
                  /\ ~verify_block_v4(block_chain[i - 1], block_chain[i])
                  /\ ~AllPairsVerify_v4

C3_Witness ==
    /\ version = "v4"
    /\ tamper.kind = "previous_hash"
    /\ tamper.index = Len(block_chain)
    /\ valid_proof(block_chain[tamper.index]) = "Ok"
    /\ ~AllPairsVerify_v4

\* C4 as claimed: an attestation of block i >= 1 (the sign of v3, the nonce
\* of v4) changed to a different value makes the verification of the chain
\* fail, on the tail block too and for every difficulty.
C4_AttestationEditDetected ==
    tamper.kind = "attestation" =>
        /\ version = "v3" => ~verify_blockchain(block_chain, public_key)
        /\ version = "v4" => ~AllPairsVerify_v4

\* C4 as amended: a changed sign of v3 makes verify_blockchain false; a
\* changed nonce of v4 makes the verification of the chain fail unless the
\* block is the tail block and the new nonce is a proof of work as well
\* (at difficulty 0 every nonce is).
C4_AttestationEditDetectedUnlessProof ==
    tamper.kind = "attestation" =>
        /\ version = "v3" => ~verify_blockchain(block_chain, public_key)
        /\ version = "v4" =>
              (AllPairsVerify_v4 <=>
                  /\ tamper.index = Len(block_chain)
                  /\ valid_proof(block_chain[tamper.index]) = "Ok")

C4_Witness ==
    /\ version = "v4"
    /\ tamper.kind = "attestation"
    /\ tamper.index < Len(block_chain)
    /\ valid_proof(block_chain[tamper.index]) = "Ok"
    /\ ~AllPairsVerify_v4

\* C5: the transaction send returns carries the wallet's address as sender
\* and a non-empty sign, and verify_transaction accepts it.
C5_SentTransactionVerifies ==
    version = "v2" =>
        \A i \in 1..Len(ledger) :
            ledger[i].value = sent[i].value =>
                /\ ledger[i].sender_address = Wallet_new(sent[i].wallet).address
                /\ ledger[i].receiver_address = sent[i].receiver_address
                /\ ledger[i].sign # EmptyBytes
                /\ verify_transaction(ledger[i]) = "Ok"

C5_Witness ==
    /\ version = "v2"
    /\ Len(ledger) = 1
    /\ ledger[1].value = sent[1].value
    /\ ledger[1].value = "inf"
    /\ ledger[1].receiver_address = ledger[1].sender_address
    /\ verify_transaction(ledger[1]) = "Ok"

\* C6 as claimed: a sent transaction whose value is changed to a different
\* value, its sign kept, fails verify_transaction.
C6_ValueEditFailsVerification ==
    version = "v2" =>
        \A i \in 1..Len(ledger) :
            ledger[i].value # sent[i].value =>
                verify_transaction(ledger[i]) # "Ok"

\* C7: the block mine returns has a digest whose first difficulty bytes are
\* zero, valid_proof accepts it, and verify_block accepts it on top of the
\* last block when the template links to that block and carries sent
\* transactions.
C7_MinedBlockIsProof ==
    (version = "v4" /\ pc = "mined") =>
        /\ hash_v4(block) \in DOMAIN sha_bytes
        /\ \A i \in 1..difficulty : sha_bytes[hash_v4(block)][i] = 0
        /\ valid_proof(block) = "Ok"
        /\ (/\ t_block.previous_hash = hash_v4(Last(block_chain))
            /\ \A k \in 1..Len(t_block.transactions) :
                  t_block.transactions[k] \in SendResults)
              => verify_block_v4(Last(block_chain), block)

C7_Witness ==
    /\ version = "v4"
    /\ pc = "mined"
    /\ difficulty = DIFFICULTY
    /\ block.nonce = 1
    /\ Len(block.transactions) = 1
    /\ verify_block_v4(Last(block_chain), block)

\* C8: generate_block lengthens block_chain by one block at the end, linked
\* to the former tail and carrying the argument's transactions; the blocks
\* already there, their order, the keys and the argument stay as they were;
\* the chain is never empty and its first block stays the genesis block.
C8_AppendOnly ==
    /\ [](version = "v3" =>
            /\ Len(block_chain) >= 1
            /\ block_chain[1].transactions = << >>
            /\ block_chain[1].previous_hash = EmptyBytes)
    /\ [][(version = "v3") => (block_chain'[1] = block_chain[1])]_vars
    /\ [][(version = "v3" /\ tamper'.kind = "none"
             /\ block_chain' # block_chain) =>
            /\ Len(block_chain') = Len(block_chain) + 1
            /\ SubSeq(block_chain', 1, Len(block_chain)) = block_chain
            /\ Last(block_chain').previous_hash = hash_v3(Last(block_chain))
            /\ Last(block_chain').transactions = transactions
            /\ transactions' = transactions
            /\ public_key' = public_key
            /\ signer' = signer]_vars

C8_Witness ==
    /\ version = "v3"
    /\ tamper.kind = "none"
    /\ Len(block_chain) = MaxBlocks + 1
    /\ Len(block_chain[3].transactions) = 1
    /\ block_chain[3].previous_hash = hash_v3(block_chain[2])

\* C9: verify_block is true exactly when the previous_hash is the hash of
\* the previous block, every transaction verifies, and the attestation is
\* valid (the authority's sign over the hash in v3, valid_proof in v4).
C9_VerifyBlockIsConjunction ==
    \A i \in 2..Len(block_chain) :
        LET previous == block_chain[i - 1]
            blk == block_chain[i]
            transactions_ok ==
                \A k \in 1..Len(blk.transactions) :
                    verify_transaction(blk.transactions[k]) = "Ok"
        IN  /\ version = "v3" =>
                  (verify_block_v3(previous, blk, public_key) <=>
                      /\ blk.previous_hash = hash_v3(previous)
                      /\ transactions_ok
                      /\ ed25519_verify(public_key, hash_v3(blk), blk.sign))
            /\ version = "v4" =>
                  (verify_block_v4(previous, blk) <=>
                      /\ blk.previous_hash = hash_v4(previous)
                      /\ transactions_ok
                      /\ valid_proof(blk) = "Ok")

\* only the transactions fail: the link and the proof hold
C9_Witness ==
    /\ version = "v4"
    /\ tamper.kind = "value"
    /\ LET blk == block_chain[tamper.index]
           previous == block_chain[tamper.index - 1]
       IN  /\ blk.previous_hash = hash_v4(previous)
           /\ valid_proof(blk) = "Ok"
           /\ verify_transaction(blk.transactions[tamper.item]) # "Ok"
           /\ ~verify_block_v4(previous, blk)

\* C10: mine tries the nonces 0, 1, 2, ... whatever nonce the template
\* carries: the block it returns carries the least nonce that is a proof,
\* and the template's time, transactions and previous_hash; the template is
\* left as it was; at difficulty 0 the nonce returned is 0.
C10_LeastNonce ==
    /\ [](version = "v4" /\ pc = "mined" =>
            /\ valid_proof(block) = "Ok"
            /\ \A m \in 0..(block.nonce - 1) :
                  LET tried == [block EXCEPT !.nonce = m]
                  IN  /\ hash_v4(tried) \in DOMAIN sha_bytes
                      /\ valid_proof(tried) # "Ok"
            /\ block.time = t_block.time
            /\ block.transactions = t_block.transactions
            /\ block.previous_hash = t_block.previous_hash
            /\ difficulty = 0 => block.nonce = 0)
    /\ [][(pc \in {"call_mine", "mine_loop"}) => (t_block' = t_block)]_vars

C10_Witness ==
    /\ version = "v4"
    /\ pc = "mined"
    /\ difficulty = DIFFICULTY
    /\ t_block.nonce = 0
    /\ block.nonce = 1
    /\ Len(block.transactions) = 1

\* C11 as claimed: mine's search ends for every template before the nonce
\* counter is incremented past its largest value: when the loop stands at
\* the largest nonce its candidate is a proof, so nonce += 1 never overflows
\* (no panic, no wrap to 0 and second visit of a nonce).
C11_ProofBeforeOverflow ==
    version = "v4" =>
        /\ pc # "panic"
        /\ (pc = "mine_loop" /\ nonce = NonceMax) => valid_proof(b) = "Ok"

====
